---- MODULE Spec2Model ----
(***************************************************************************)
(* Name server program (nameserver-rust/src/lib.rs): process_instruction   *)
(* grants a claim on a name and counts the claims.  The ledger holds the   *)
(* accounts; every invocation of process_instruction is one atomic step.   *)
(***************************************************************************)
EXTENDS Integers, Sequences, FiniteSets, TLC

\* ------------------------------------------------------------------ bounds
\* process_instruction is invoked while fewer than MaxClaims requests succeeded
MaxClaims == 2

\* a request carries at most 4 + MaxExtra accounts
MaxExtra == 1

\* ------------------------------------------------------------- byte values
Fill(b) == [i \in 1..32 |-> b]

\* a u32 is kept as its two 16-bit halves, value = hi * 65536 + lo
Half == 65536

U32Value(hi, lo) == [hi |-> hi, lo |-> lo]

U32_MAX == U32Value(Half - 1, Half - 1)

\* a < b on u32
U32Less(a, b) == a.hi < b.hi \/ (a.hi = b.hi /\ a.lo < b.lo)

\* a + 1 on u32, wrapping at 2^32
WrappingInc(a) ==
    IF a.lo < Half - 1 THEN U32Value(a.hi, a.lo + 1)
    ELSE IF a.hi < Half - 1 THEN U32Value(a.hi + 1, 0)
    ELSE U32Value(0, 0)

\* LittleEndian::read_u32(&src[0..4])
read_u32(src) == U32Value(src[3] + 256 * src[4], src[1] + 256 * src[2])

\* the four bytes written most significant first
write_u32_big_endian(dst, n) ==
    [i \in 1..Len(dst) |->
        IF i = 1 THEN n.hi \div 256
        ELSE IF i = 2 THEN n.hi % 256
        ELSE IF i = 3 THEN n.lo \div 256
        ELSE IF i = 4 THEN n.lo % 256
        ELSE dst[i]]

\* LittleEndian::write_u32(&mut dst[0..4], n): bytes 5.. of dst are kept
write_u32(dst, n) ==
    [i \in 1..Len(dst) |->
        IF i = 1 THEN n.lo % 256
        ELSE IF i = 2 THEN n.lo \div 256
        ELSE IF i = 3 THEN n.hi % 256
        ELSE IF i = 4 THEN n.hi \div 256
        ELSE dst[i]]

\* ---------------------------------------------------------------- errors
\* enum VoteError, in declaration order
VoteError == <<"UnexpectedCandidate", "IncorrectOwner", "AccountNotRentExempt",
               "AccountNotCheckAccount", "AlreadyVoted">>

\* discriminants numbered from 1
AsU32_one_based(e) == CHOOSE i \in 1..Len(VoteError) : VoteError[i] = e

\* `e as u32`: the discriminant of a field-less enum is its declaration index
AsU32(e) == (CHOOSE i \in 1..Len(VoteError) : VoteError[i] = e) - 1

\* impl From<VoteError> for ProgramError
FromVoteError(e) == [kind |-> "Custom", code |-> AsU32(e)]

\* the built-in ProgramError variants the handler can return
ProgramError(k) == [kind |-> k, code |-> 0]

Ok == [kind |-> "Ok", code |-> 0]

\* a panic!() (failed expect, slice length mismatch, overflow check) aborts
\* the invocation
Panic == [kind |-> "Panic", code |-> 0]

\* ------------------------------------------------- hash and derived address
\* solana_sdk::hash::hash is SHA-256; the model uses a deterministic digest
\* that is collision free on the modelled inputs (DigestsDistinct below)
hash(bytes) ==
    LET n == Len(bytes)
    IN  IF n = 0 THEN Fill(227)
        ELSE [i \in 1..32 |->
                (7 * bytes[((i - 1) % n) + 1] + 13 * bytes[((3 * i) % n) + 1]
                   + 5 * n + i) % 256]

MAX_SEED_LEN == 32

MetadataSeed == <<109, 101, 116, 97, 100, 97, 116, 97>>   \* "metadata"

\* Pubkey::create_with_seed(base, seed, owner): hash of base, seed and owner
create_with_seed(base, seed, owner) ==
    IF Len(seed) > MAX_SEED_LEN
    THEN [err |-> ProgramError("MaxSeedLengthExceeded"), key |-> <<>>]
    ELSE [err |-> Ok, key |-> hash(base \o seed \o owner)]

\* ------------------------------------------------------------- the ledger
Alice == <<97, 108, 105, 99, 101>>
Bob   == <<98, 111, 98>>
Carol == <<99, 97, 114, 111, 108>>
Names == {Alice, Bob, Carol}

ProgramId     == Fill(80)
SystemProgram == Fill(0)
SysvarOwner   == Fill(6)

\* sysvar::rent::id()  (SysvarRent111111111111111111111111111111111)
RentId ==
    <<6, 167, 213, 23, 25, 44, 92, 81, 33, 140, 201, 76, 61, 74, 241, 127,
      88, 218, 238, 8, 155, 161, 253, 68, 227, 219, 217, 138, 0, 0, 0, 0>>

\* the claim record of a name lives at the address derived from its hash
ClaimAddress(name) == create_with_seed(hash(name), MetadataSeed, ProgramId).key

Accounts == {"server", "meta_alice", "meta_bob", "meta_carol", "rent", "user1", "user2"}

KeyTable ==
    [a \in Accounts |->
    CASE a = "server"     -> Fill(83)
      [] a = "meta_alice" -> ClaimAddress(Alice)
      [] a = "meta_bob"   -> ClaimAddress(Bob)
      [] a = "meta_carol" -> ClaimAddress(Carol)
      [] a = "rent"       -> RentId
      [] a = "user1"      -> Fill(1)
      [] a = "user2"      -> Fill(2)]

Key(a) == KeyTable[a]

Owner(a) ==
    CASE a \in {"server", "meta_alice", "meta_bob", "meta_carol"} -> ProgramId
      [] a = "rent" -> SysvarOwner
      [] OTHER -> SystemProgram

\* the Rent sysvar the host publishes
RentSysvar == [lamports_per_byte_year |-> 3480, exemption_threshold |-> 2]

ACCOUNT_STORAGE_OVERHEAD == 128

\* Rent::minimum_balance(data_len)
minimum_balance(rent, data_len) ==
    (ACCOUNT_STORAGE_OVERHEAD + data_len) * rent.lamports_per_byte_year
        * rent.exemption_threshold

\* the balance compared with the minimum of an empty account
is_exempt_ignoring_len(rent, balance, data_len) == balance >= minimum_balance(rent, 0)

\* the balance not examined
is_exempt_unchecked(rent, balance, data_len) == TRUE

\* Rent::is_exempt(balance, data_len)
is_exempt(rent, balance, data_len) == balance >= minimum_balance(rent, data_len)

\* the claim record of Carol was funded one lamport short of rent exemption
LamportsTable ==
    [a \in Accounts |->
    CASE a = "server"     -> minimum_balance(RentSysvar, 4)
      [] a = "meta_alice" -> minimum_balance(RentSysvar, 32)
      [] a = "meta_bob"   -> minimum_balance(RentSysvar, 32) + 5
      [] a = "meta_carol" -> minimum_balance(RentSysvar, 32) - 1
      [] a = "rent"       -> 1
      [] OTHER            -> 1000000]

Lamports(a) == LamportsTable[a]

\* bincode of RentSysvar: u64 LE, f64 2.0, burn_percent
RentData == <<152, 13, 0, 0, 0, 0, 0, 0,  0, 0, 0, 0, 0, 0, 0, 64,  50>>

\* account data at deployment: the count, and zero-filled claim records
InitData(count) ==
    [a \in Accounts |->
        CASE a = "server" -> write_u32(<<0, 0, 0, 0>>, count)
          [] a \in {"meta_alice", "meta_bob", "meta_carol"} -> Fill(0)
          [] a = "rent" -> RentData
          [] OTHER -> <<>>]

\* --------------------------------------------------------------- requests
\* AccountInfo handed to the program for ledger account a
AccountInfo(a, signers, d) ==
    [acct |-> a, key |-> Key(a), is_signer |-> a \in signers,
     lamports |-> Lamports(a), data_len |-> Len(d[a]), owner |-> Owner(a)]

\* ------------------------------------------------------------ record codecs
Metadata_LEN == 32

ServerData_LEN == 4

\* Pubkey::new(src) panics unless src is 32 bytes; Metadata { acct_id }
Metadata_unpack_from_slice(src) ==
    IF Len(src) # 32 THEN [err |-> Panic, acct_id |-> <<>>]
    ELSE [err |-> Ok, acct_id |-> src]

\* Pack::unpack_unchecked followed by .expect(): a short buffer panics
Metadata_unpack_unchecked(input) ==
    IF Len(input) < Metadata_LEN THEN [err |-> Panic, acct_id |-> <<>>]
    ELSE Metadata_unpack_from_slice(input)

\* dst.clone_from_slice(&self.acct_id.to_bytes()) panics on unequal lengths
Metadata_pack_into_slice(self, dst) ==
    IF Len(dst) # Len(self.acct_id) THEN [err |-> Panic, dst |-> dst]
    ELSE [err |-> Ok, dst |-> self.acct_id]

\* Pack::pack followed by .expect()
Metadata_pack(src, dst) ==
    IF Len(dst) < Metadata_LEN THEN [err |-> Panic, dst |-> dst]
    ELSE Metadata_pack_into_slice(src, dst)

\* Vote::unpack_from_slice: src[0] panics on an empty slice; the candidate
\* must be 1 or 2
Vote_unpack_from_slice(src) ==
    IF Len(src) = 0 THEN [err |-> Panic, candidate |-> 0]
    ELSE IF src[1] # 1 /\ src[1] # 2
    THEN [err |-> FromVoteError("UnexpectedCandidate"), candidate |-> 0]
    ELSE [err |-> Ok, candidate |-> src[1]]

ServerData_unpack_from_slice(src) == [name_count |-> read_u32(src)]

ServerData_unpack_unchecked(input) ==
    IF Len(input) < ServerData_LEN
    THEN [err |-> Panic, name_count |-> U32Value(0, 0)]
    ELSE [err |-> Ok, name_count |-> ServerData_unpack_from_slice(input).name_count]

ServerData_pack_into_slice(self, dst) == write_u32(dst, self.name_count)

ServerData_pack(src, dst) ==
    IF Len(dst) < ServerData_LEN THEN [err |-> Panic, dst |-> dst]
    ELSE [err |-> Ok, dst |-> ServerData_pack_into_slice(src, dst)]

\* ------------------------------------------------------ process_instruction
\* a missing account taken to be the signing submitter instead of an error
next_account_info_defaulting(accounts, i) ==
    IF i > Len(accounts)
    THEN [err |-> Ok,
          info |-> [acct |-> "user1", key |-> Key("user1"), is_signer |-> TRUE,
                    lamports |-> Lamports("user1"), data_len |-> 0,
                    owner |-> Owner("user1")]]
    ELSE [err |-> Ok, info |-> accounts[i]]

\* next_account_info: the i-th call yields the i-th account of the slice
next_account_info(accounts, i) ==
    IF i > Len(accounts)
    THEN [err |-> ProgramError("NotEnoughAccountKeys"), info |-> <<>>]
    ELSE [err |-> Ok, info |-> accounts[i]]

\* sysvar::rent::check_id
check_id(key) == key = RentId

\* Rent::from_account_info: the key must be the Rent id and the data decode
Rent_from_account_info(info, d) ==
    IF ~check_id(info.key) \/ d[info.acct] # RentData
    THEN [err |-> ProgramError("InvalidArgument"), rent |-> RentSysvar]
    ELSE [err |-> Ok, rent |-> RentSysvar]

\* the owner check dropped
OwnedBy_unchecked(info, program_id) == TRUE

\* lines 157, 166: account.owner != program_id
OwnedBy(info, program_id) == info.owner = program_id

\* the signature check dropped
IsSigner_unchecked(info) == TRUE

\* line 186: target_account.is_signer
IsSigner(info) == info.is_signer

\* the address check dropped
AddressMatches_unchecked(expected, info) == TRUE

\* line 195: expected_metadata_account_pubkey == *metadata_account.key
AddressMatches(expected, info) == expected = info.key

\* the claim record's bytes not examined
IsUnclaimed_unchecked(acct_id) == TRUE

\* line 207: metadata_check.acct_id.to_bytes() != [0; 32]
IsUnclaimed(acct_id) == acct_id = Fill(0)

\* the borrow flag of the RefCell not consulted
try_borrow_mut_data_unchecked(info, borrowed) == Ok

\* AccountInfo::try_borrow_mut_data: fails while the same account's data is
\* borrowed (a duplicate account shares the RefCell of its first occurrence)
try_borrow_mut_data(info, borrowed) ==
    IF info.acct \in borrowed THEN ProgramError("AccountBorrowFailed") ELSE Ok

\* server_data.name_count += 1: panics when the build checks overflow,
\* wraps otherwise
AddOne(count, overflow_checks) ==
    IF count = U32_MAX /\ overflow_checks
    THEN [err |-> Panic, count |-> count]
    ELSE [err |-> Ok, count |-> WrappingInc(count)]

\* the checks with the rent taken from the cluster whatever the 3rd account is
validate_unattested(program_id, accounts, instruction_data, d) ==
    LET name_hash == hash(instruction_data)
        server    == next_account_info(accounts, 1)
        metadata  == next_account_info(accounts, 2)
        sysvar    == next_account_info(accounts, 3)
        target    == next_account_info(accounts, 4)
        rent      == [err |-> Ok, rent |-> RentSysvar]
        expected  == create_with_seed(name_hash, MetadataSeed, program_id)
        borrow    == try_borrow_mut_data(metadata.info, {})
        check     == Metadata_unpack_unchecked(d[metadata.info.acct])
        Fail(e)   == [err |-> e, acct_id |-> <<>>]
    IN  IF server.err # Ok THEN Fail(server.err)
        ELSE IF ~OwnedBy(server.info, program_id)
        THEN Fail(FromVoteError("IncorrectOwner"))
        ELSE IF metadata.err # Ok THEN Fail(metadata.err)
        ELSE IF ~OwnedBy(metadata.info, program_id)
        THEN Fail(FromVoteError("IncorrectOwner"))
        ELSE IF sysvar.err # Ok THEN Fail(sysvar.err)
        ELSE IF rent.err # Ok THEN Fail(rent.err)
        ELSE IF ~is_exempt(rent.rent, metadata.info.lamports, metadata.info.data_len)
        THEN Fail(FromVoteError("AccountNotRentExempt"))
        ELSE IF target.err # Ok THEN Fail(target.err)
        ELSE IF ~IsSigner(target.info)
        THEN Fail(ProgramError("MissingRequiredSignature"))
        ELSE IF expected.err # Ok THEN Fail(expected.err)
        ELSE IF ~AddressMatches(expected.key, metadata.info)
        THEN Fail(FromVoteError("AccountNotCheckAccount"))
        ELSE IF borrow # Ok THEN Fail(borrow)
        ELSE IF check.err # Ok THEN Fail(check.err)
        ELSE IF ~IsUnclaimed(check.acct_id)
        THEN Fail(FromVoteError("AlreadyVoted"))
        ELSE [err |-> Ok, acct_id |-> check.acct_id]

\* lines 148-210: the checks, in the order of the code.  Yields the first
\* error, or Ok with the decoded claim record.
validate(program_id, accounts, instruction_data, d) ==
    LET name_hash == hash(instruction_data)
        server    == next_account_info(accounts, 1)
        metadata  == next_account_info(accounts, 2)
        sysvar    == next_account_info(accounts, 3)
        target    == next_account_info(accounts, 4)
        rent      == Rent_from_account_info(sysvar.info, d)
        expected  == create_with_seed(name_hash, MetadataSeed, program_id)
        borrow    == try_borrow_mut_data(metadata.info, {})
        check     == Metadata_unpack_unchecked(d[metadata.info.acct])
        Fail(e)   == [err |-> e, acct_id |-> <<>>]
    IN  IF server.err # Ok THEN Fail(server.err)
        ELSE IF ~OwnedBy(server.info, program_id)
        THEN Fail(FromVoteError("IncorrectOwner"))
        ELSE IF metadata.err # Ok THEN Fail(metadata.err)
        ELSE IF ~OwnedBy(metadata.info, program_id)
        THEN Fail(FromVoteError("IncorrectOwner"))
        ELSE IF sysvar.err # Ok THEN Fail(sysvar.err)
        ELSE IF rent.err # Ok THEN Fail(rent.err)
        ELSE IF ~check_id(sysvar.info.key)
        THEN Fail(ProgramError("InvalidAccountData"))
        ELSE IF ~is_exempt(rent.rent, metadata.info.lamports, metadata.info.data_len)
        THEN Fail(FromVoteError("AccountNotRentExempt"))
        ELSE IF target.err # Ok THEN Fail(target.err)
        ELSE IF ~IsSigner(target.info)
        THEN Fail(ProgramError("MissingRequiredSignature"))
        ELSE IF expected.err # Ok THEN Fail(expected.err)
        ELSE IF ~AddressMatches(expected.key, metadata.info)
        THEN Fail(FromVoteError("AccountNotCheckAccount"))
        ELSE IF borrow # Ok THEN Fail(borrow)
        ELSE IF check.err # Ok THEN Fail(check.err)
        ELSE IF ~IsUnclaimed(check.acct_id)
        THEN Fail(FromVoteError("AlreadyVoted"))
        ELSE [err |-> Ok, acct_id |-> check.acct_id]

\* lines 212-224: with the claim record's data mutably borrowed, borrow the
\* counter's data, add one to the count, write the count back and then the
\* decoded Metadata (metadata_check is written as it was read)
\* the count packed into the counter account a second time
record_claim_packing_twice(server, metadata, metadata_check, d, overflow_checks) ==
    LET server_data == ServerData_unpack_unchecked(d[server.acct])
        sum         == WrappingInc(server_data.name_count)
        packed      == ServerData_pack([name_count |-> sum], d[server.acct])
    IN  [result |-> Ok,
         data   |-> [d EXCEPT ![server.acct] = packed.dst],
         writes |-> <<server.acct, server.acct, metadata.acct>>]

record_claim(server, metadata, metadata_check, d, overflow_checks) ==
    LET borrow      == try_borrow_mut_data(server, {metadata.acct})
        server_data == ServerData_unpack_unchecked(d[server.acct])
        sum         == AddOne(server_data.name_count, overflow_checks)
        packed      == ServerData_pack([name_count |-> sum.count], d[server.acct])
        d1          == [d EXCEPT ![server.acct] = packed.dst]
        repacked    == Metadata_pack(metadata_check, d1[metadata.acct])
        d2          == [d1 EXCEPT ![metadata.acct] = repacked.dst]
        Abort(e)    == [result |-> e, data |-> d, writes |-> <<>>]
    IN  IF borrow # Ok THEN Abort(borrow)
        ELSE IF server_data.err # Ok THEN Abort(Panic)
        ELSE IF sum.err # Ok THEN Abort(Panic)
        ELSE IF packed.err # Ok THEN Abort(Panic)
        ELSE IF repacked.err # Ok THEN Abort(Panic)
        ELSE [result |-> Ok, data |-> d2, writes |-> <<server.acct, metadata.acct>>]

\* the count written before the claim record is found to be claimed already
process_instruction_counting_first(program_id, accounts, instruction_data, d, overflow_checks) ==
    LET v == validate(program_id, accounts, instruction_data, d)
    IN  IF v.err = FromVoteError("AlreadyVoted")
        THEN [result |-> v.err,
              data |-> record_claim(accounts[1], accounts[2],
                                    [acct_id |-> d[accounts[2].acct]],
                                    d, overflow_checks).data,
              writes |-> <<accounts[1].acct>>]
        ELSE IF v.err # Ok THEN [result |-> v.err, data |-> d, writes |-> <<>>]
        ELSE record_claim(accounts[1], accounts[2], [acct_id |-> v.acct_id],
                          d, overflow_checks)

\* the instruction data decoded as a Vote before the checks
process_instruction_decoding_vote(program_id, accounts, instruction_data, d, overflow_checks) ==
    LET vote == Vote_unpack_from_slice(instruction_data)
        v    == validate(program_id, accounts, instruction_data, d)
    IN  IF vote.err # Ok THEN [result |-> vote.err, data |-> d, writes |-> <<>>]
        ELSE IF v.err # Ok THEN [result |-> v.err, data |-> d, writes |-> <<>>]
        ELSE record_claim(accounts[1], accounts[2], [acct_id |-> v.acct_id],
                          d, overflow_checks)

\* fn process_instruction(program_id, accounts, instruction_data)
process_instruction(program_id, accounts, instruction_data, d, overflow_checks) ==
    LET v == validate(program_id, accounts, instruction_data, d)
    IN  IF v.err # Ok THEN [result |-> v.err, data |-> d, writes |-> <<>>]
        ELSE record_claim(accounts[1], accounts[2], [acct_id |-> v.acct_id],
                          d, overflow_checks)

\* ------------------------------------------------------------ state machine
VARIABLES
    data,             \* ledger: account -> bytes of its data
    overflow_checks,  \* build profile: does `+=` panic on overflow
    request,          \* the last request handed to process_instruction
    result,           \* what process_instruction returned for it
    before,           \* the ledger data as that request found them
    successes,        \* name -> number of requests for it that returned Ok
    deployed_count,   \* the count the server account was deployed with
    writes,           \* the accounts whose data that request wrote, in order
    conv              \* the last conversion applied on its own: op, in, out

ledger_vars == <<data, overflow_checks, request, result, before, successes,
                 deployed_count, writes>>

vars == <<data, overflow_checks, request, result, before, successes, deployed_count,
          writes, conv>>

\* user1 submits and signs every transaction; user2 never signs; the server
\* account was created from a keypair, whose holder can sign as well
Signers == {"user1", "server"}

\* the accounts a request may put in each position of the account list
Slot(i) ==
    CASE i = 1 -> {"server", "meta_bob", "user1"}
      [] i = 2 -> {"meta_alice", "meta_bob", "meta_carol", "user1"}
      [] i = 3 -> {"rent", "user1"}
      [] i = 4 -> {"user1", "user2"}

FullLists == Slot(1) \X Slot(2) \X Slot(3) \X Slot(4)

\* fewer than four accounts: the proper prefixes of the full lists
ShortLists == {SubSeq(l, 1, n) : l \in FullLists, n \in 0..3}

\* more than four accounts: a well-formed list followed by up to MaxExtra more
LongLists ==
    {<<"server", m, "rent", "user1">> \o [i \in 1..k |-> "user2"] :
        m \in {"meta_alice", "meta_bob", "meta_carol"}, k \in 1..MaxExtra}

\* the counter account itself as the signing requester
CounterSignedLists ==
    {<<"server", m, "rent", "server">> : m \in {"meta_alice", "meta_bob", "meta_carol"}}

AccountLists == ShortLists \cup FullLists \cup LongLists \cup CounterSignedLists

Requests == [accounts : AccountLists, instruction_data : Names]

NoRequest == [accounts |-> <<>>, instruction_data |-> <<>>]

NoConversion == [op |-> "none", in |-> <<>>, out |-> <<>>]

NoResult == [kind |-> "None", code |-> 0]

DeployedCounts == {U32Value(0, 0), U32_MAX}

TotalSuccesses(s) == s[Alice] + s[Bob] + s[Carol]

Init ==
    /\ deployed_count \in DeployedCounts
    /\ data = InitData(deployed_count)
    /\ overflow_checks \in BOOLEAN
    /\ request = NoRequest
    /\ result = NoResult
    /\ before = data
    /\ successes = [n \in Names |-> 0]
    /\ writes = <<>>
    /\ conv = NoConversion

\* the host runs process_instruction on one request, atomically
Invoke(req) ==
    /\ TotalSuccesses(successes) < MaxClaims
    /\ LET infos == [i \in 1..Len(req.accounts) |->
                        AccountInfo(req.accounts[i], Signers, data)]
           out   == process_instruction(ProgramId, infos, req.instruction_data,
                                        data, overflow_checks)
       IN  /\ data' = out.data
           /\ result' = out.result
           /\ writes' = out.writes
           /\ successes' = IF out.result = Ok
                           THEN [successes EXCEPT ![req.instruction_data] = @ + 1]
                           ELSE successes
    /\ request' = req
    /\ before' = data
    /\ UNCHANGED <<overflow_checks, deployed_count, conv>>

Next == \E req \in Requests : Invoke(req)

Spec == Init /\ [][Next]_vars

\* ------------------------------------------- the conversions on their own
\* VoteError -> ProgramError, on one variant
Convert(e) ==
    /\ conv' = [op |-> "from", in |-> e, out |-> FromVoteError(e)]
    /\ UNCHANGED ledger_vars

\* the payloads handed to the Vote decoder: the names and one-byte selectors
VotePayloads == Names \cup {<<c>> : c \in {0, 1, 2, 3, 255}}

\* Vote::unpack_from_slice on one payload
DecodeVote(src) ==
    /\ conv' = [op |-> "vote", in |-> src, out |-> Vote_unpack_from_slice(src)]
    /\ UNCHANGED ledger_vars

\* the byte values the sampled counts are built from
ByteSamples == {0, 1, 128, 255}

\* the counts with every byte drawn from ByteSamples
CountSamples ==
    {U32Value(b3 * 256 + b2, b1 * 256 + b0) : b0, b1, b2, b3 \in ByteSamples}

\* the buffers a count is packed into: a counter account's data, fresh or
\* used, and a longer one
CountBuffers == {<<0, 0, 0, 0>>, <<255, 255, 255, 255>>, <<7, 7, 7, 7, 7, 7>>}

\* 32-byte values: uniform ones, every key of the ledger, and two ramps
ClaimSamples ==
    {Fill(v) : v \in ByteSamples} \cup {Key(a) : a \in Accounts}
        \cup {[i \in 1..32 |-> i], [i \in 1..32 |-> 256 - i]}

\* ServerData { name_count: c } packed into dst, and the result unpacked
CountRoundTrip(c, dst) ==
    /\ LET packed == ServerData_pack([name_count |-> c], dst)
       IN  conv' = [op  |-> "count",
                    in  |-> [count |-> c, dst |-> dst],
                    out |-> [packed   |-> packed,
                             unpacked |-> ServerData_unpack_unchecked(packed.dst)]]
    /\ UNCHANGED ledger_vars

\* the Metadata unpacked from src packed into dst
ClaimRoundTrip(src, dst) ==
    /\ LET unpacked == Metadata_unpack_unchecked(src)
       IN  conv' = [op  |-> "claim",
                    in  |-> [src |-> src, dst |-> dst],
                    out |-> [unpacked |-> unpacked,
                             packed   |-> Metadata_pack([acct_id |-> unpacked.acct_id], dst)]]
    /\ UNCHANGED ledger_vars

ConversionNext ==
    \/ \E i \in 1..Len(VoteError) : Convert(VoteError[i])
    \/ \E src \in VotePayloads : DecodeVote(src)
    \/ \E c \in CountSamples, dst \in CountBuffers : CountRoundTrip(c, dst)
    \/ \E src \in ClaimSamples, dst \in {Fill(0), Fill(255)} : ClaimRoundTrip(src, dst)

ConversionSpec == Init /\ [][ConversionNext]_vars

\* ------------------------------------------------------------- type sanity
Counter(d, a) == read_u32(d[a])

TypeOK ==
    /\ \A a \in Accounts : Len(data[a]) = Len(InitData(deployed_count)[a])
    /\ \A a \in Accounts : \A i \in 1..Len(data[a]) : data[a][i] \in 0..255
    /\ request \in Requests \cup {NoRequest}

\* the stand-in digest separates every key of the ledger
DigestsDistinct == \A a, b \in Accounts : a # b => Key(a) # Key(b)

\* ------------------------------------------------- observers for the claims
Invoked == result # NoResult

Succeeded == result = Ok

NumAccounts == Len(request.accounts)

Supplied(i) == i <= NumAccounts

\* the value a + k as a number, not reduced modulo 2^32 (hi may reach Half)
Plus(a, k) == [hi |-> a.hi + ((a.lo + k) \div Half), lo |-> (a.lo + k) % Half]

RentExempt(a) == Lamports(a) >= minimum_balance(RentSysvar, Len(before[a]))

\* the derived address of the request's name
ExpectedAddress == ClaimAddress(request.instruction_data)

\* both owner checks and the attestation identity check pass
OwnersAndAttestationPass ==
    /\ Supplied(3)
    /\ Owner(request.accounts[1]) = ProgramId
    /\ Owner(request.accounts[2]) = ProgramId
    /\ Key(request.accounts[3]) = RentId

\* every check before the address check passes
ChecksBeforeAddressPass ==
    /\ OwnersAndAttestationPass
    /\ RentExempt(request.accounts[2])
    /\ Supplied(4)
    /\ request.accounts[4] \in Signers

\* the seven checks of the pipeline, numbered in the order of C12: whether the
\* request fails check k, judged on the ledger before the request
CheckFails(k) ==
    CASE k = 1 -> Owner(request.accounts[1]) # ProgramId
      [] k = 2 -> Owner(request.accounts[2]) # ProgramId
      [] k = 3 -> Key(request.accounts[3]) # RentId
      [] k = 4 -> ~RentExempt(request.accounts[2])
      [] k = 5 -> request.accounts[4] \notin Signers
      [] k = 6 -> Key(request.accounts[2]) # ExpectedAddress
      [] k = 7 -> before[request.accounts[2]] # Fill(0)

\* the number of accounts that must be supplied for check k to be evaluated
CheckNeeds(k) == IF k <= 2 THEN k ELSE IF k <= 4 THEN 3 ELSE 4

\* the error check k returns
CheckError(k) ==
    CASE k \in {1, 2} -> [kind |-> "Custom", code |-> 1]
      [] k = 3 -> [kind |-> "InvalidArgument", code |-> 0]
      [] k = 4 -> [kind |-> "Custom", code |-> 2]
      [] k = 5 -> [kind |-> "MissingRequiredSignature", code |-> 0]
      [] k = 6 -> [kind |-> "Custom", code |-> 3]
      [] k = 7 -> [kind |-> "Custom", code |-> 4]

\* four records supplied and the owner, attestation, rent-exemption, signature
\* and address checks all pass
ChecksBeforeClaimedPass == Supplied(4) /\ \A k \in 1..6 : ~CheckFails(k)

\* the account at the derived address of a name
ClaimRecordOf(name) == CHOOSE a \in Accounts : Key(a) = ClaimAddress(name)

\* C1: for every name at most one request ever succeeds; after the first
\* success every later request for the name is rejected.
C1_Uniqueness == \A n \in Names : successes[n] <= 1

\* C2: after a successful request the claim record's 32 bytes are the public
\* key of the requester record (4th account).
C2_ClaimantRecorded ==
    Succeeded => data[request.accounts[2]] = Key(request.accounts[4])

\* C3: when the successful claims so far were all on distinct names, the
\* NameCounter equals the deployed count plus the number of successes.
C3_CounterCountsClaims ==
    (\A n \in Names : successes[n] <= 1)
        => Counter(data, "server") = Plus(deployed_count, TotalSuccesses(successes))

\* C4: whenever process_instruction returns an error (including a panic), the
\* data of every account is what it was before the request.
C4_NoMutationOnFailure == (Invoked /\ ~Succeeded) => data = before

C4_Witness ==
    /\ result = FromVoteError("AlreadyVoted")
    /\ request.accounts[1] = "server"
    /\ data = before

\* C5: a request whose 4th account is not a signer never succeeds and leaves
\* all account data unchanged, whatever the other accounts are.
C5_UnsignedNeverSucceeds ==
    (Invoked /\ Supplied(4) /\ request.accounts[4] \notin Signers)
        => (~Succeeded /\ data = before)

C5_Witness ==
    /\ request.accounts = <<"server", "meta_alice", "rent", "user2">>
    /\ request.instruction_data = Alice
    /\ result = ProgramError("MissingRequiredSignature")
    /\ data = before

\* C6 as stated: every request whose claim record's address differs from the
\* address derived from the payload fails with AccountNotCheckAccount.
C6_AlwaysNotCheckAccount ==
    (Invoked /\ Supplied(2) /\ Key(request.accounts[2]) # ExpectedAddress)
        => result = FromVoteError("AccountNotCheckAccount")

\* C6 amended: such a request always fails and changes nothing; the error is
\* AccountNotCheckAccount when the owner, attestation, rent-exemption and
\* signature checks all pass.
C6_AddressBinding ==
    (Invoked /\ Supplied(2) /\ Key(request.accounts[2]) # ExpectedAddress)
        => /\ ~Succeeded
           /\ data = before
           /\ ChecksBeforeAddressPass
                => result = FromVoteError("AccountNotCheckAccount")

C6_Witness ==
    /\ request.accounts = <<"server", "meta_bob", "rent", "user1">>
    /\ request.instruction_data = Alice
    /\ result = FromVoteError("AccountNotCheckAccount")

\* C7 as stated: every request whose claim record is not rent exempt fails
\* with AccountNotRentExempt.
C7_AlwaysNotRentExempt ==
    (Invoked /\ Supplied(2) /\ ~RentExempt(request.accounts[2]))
        => result = FromVoteError("AccountNotRentExempt")

\* C7 amended: such a request always fails; the error is AccountNotRentExempt
\* when both owner checks pass and the 3rd account is the rent sysvar, whatever
\* the 4th account, its signature, the address match and the record's bytes.
C7_PermanenceGate ==
    (Invoked /\ Supplied(2) /\ ~RentExempt(request.accounts[2]))
        => /\ ~Succeeded
           /\ OwnersAndAttestationPass
                => result = FromVoteError("AccountNotRentExempt")

C7_Witness ==
    /\ request.accounts = <<"server", "meta_carol", "rent", "user1">>
    /\ request.instruction_data = Carol
    /\ before["meta_carol"] = Fill(0)
    /\ result = FromVoteError("AccountNotRentExempt")

\* C8: a request whose 1st or 2nd account is not owned by the program fails
\* with IncorrectOwner and writes nothing; either account alone suffices.
C8_OwnershipGate ==
    (/\ Invoked
     /\ \/ Supplied(1) /\ Owner(request.accounts[1]) # ProgramId
        \/ Supplied(2) /\ Owner(request.accounts[2]) # ProgramId)
        => (result = FromVoteError("IncorrectOwner") /\ data = before)

C8_Witness ==
    /\ request.accounts = <<"server", "user1", "rent", "user1">>
    /\ result = FromVoteError("IncorrectOwner")

\* C9 as stated: a request succeeds only if exactly four accounts are supplied.
C9_ExactlyFour == Succeeded => NumAccounts = 4

\* C9 amended: a request succeeds only if at least four accounts are supplied;
\* with fewer than four it is rejected and changes nothing.
C9_AtLeastFour ==
    /\ Succeeded => NumAccounts >= 4
    /\ (Invoked /\ NumAccounts < 4) => (~Succeeded /\ data = before)

C9_Witness ==
    /\ request.accounts = <<"server", "meta_alice", "rent">>
    /\ result = ProgramError("NotEnoughAccountKeys")
    /\ data = before

\* C10: across a request the count in the account in the counter role stays
\* the same when the request fails and grows by exactly 1 when it succeeds;
\* it never decreases, also from 4294967295.
C10_CounterStep ==
    (Invoked /\ Supplied(1) /\ Len(before[request.accounts[1]]) >= 4)
        => LET b == Counter(before, request.accounts[1])
               a == Counter(data, request.accounts[1])
           IN  /\ ~U32Less(a, b)
               /\ IF Succeeded THEN a = Plus(b, 1) ELSE a = b

\* C11: every VoteError variant converts to the custom code equal to its
\* declaration index counted from 0 (UnexpectedCandidate 0, IncorrectOwner 1,
\* AccountNotRentExempt 2, AccountNotCheckAccount 3, AlreadyVoted 4), and no
\* two variants share a code.
C11_ErrorCodes ==
    /\ FromVoteError("UnexpectedCandidate") = [kind |-> "Custom", code |-> 0]
    /\ FromVoteError("IncorrectOwner") = [kind |-> "Custom", code |-> 1]
    /\ FromVoteError("AccountNotRentExempt") = [kind |-> "Custom", code |-> 2]
    /\ FromVoteError("AccountNotCheckAccount") = [kind |-> "Custom", code |-> 3]
    /\ FromVoteError("AlreadyVoted") = [kind |-> "Custom", code |-> 4]
    /\ \A i, j \in 1..Len(VoteError) :
            FromVoteError(VoteError[i]) = FromVoteError(VoteError[j]) => i = j
    /\ conv.op = "from"
            => \E i \in 1..Len(VoteError) :
                    /\ conv.in = VoteError[i]
                    /\ conv.out = [kind |-> "Custom", code |-> i - 1]

C11_Witness ==
    /\ conv.op = "from"
    /\ conv.in = "AlreadyVoted"
    /\ conv.out = [kind |-> "Custom", code |-> 4]

\* C12: the error returned is that of the earliest failing check in the order
\* counter owner, claim-record owner, attestation identity, rent exemption,
\* requester signature, derived address, claim record non-zero; the error of
\* a later check is never returned while an earlier check fails.
C12_CheckPrecedence ==
    Invoked =>
        \A k \in 1..7 :
            (/\ Supplied(CheckNeeds(k))
             /\ CheckFails(k)
             /\ \A j \in 1..(k - 1) : ~CheckFails(j))
                => result = CheckError(k)

\* a request failing the rent, signature and address checks at once
C12_Witness ==
    /\ request.accounts = <<"server", "meta_carol", "rent", "user2">>
    /\ request.instruction_data = Alice
    /\ CheckFails(4) /\ CheckFails(5) /\ CheckFails(6)
    /\ result = [kind |-> "Custom", code |-> 2]

C14_AttestationIdentity ==
    (/\ Invoked
     /\ Supplied(3)
     /\ Owner(request.accounts[1]) = ProgramId
     /\ Owner(request.accounts[2]) = ProgramId
     /\ Key(request.accounts[3]) # RentId)
        => /\ result.kind \in {"InvalidArgument", "InvalidAccountData"}
           /\ result # [kind |-> "Custom", code |-> 2]
           /\ data = before

\* the claim record is one lamport short of exemption, and it is the 3rd
\* account that is reported
C14_Witness ==
    /\ request.accounts = <<"server", "meta_carol", "user1", "user1">>
    /\ ~RentExempt("meta_carol")
    /\ result = [kind |-> "InvalidArgument", code |-> 0]

Changed == {a \in Accounts : data[a] # before[a]}

\* C16 as stated: no request changes the 3rd or the 4th account; a successful
\* request writes the counter account and the claim record at most once each;
\* nothing but the first two accounts is written.
C16_FourthNeverChanges ==
    Invoked =>
        /\ Supplied(3) => request.accounts[3] \notin Changed
        /\ Supplied(4) => request.accounts[4] \notin Changed
        /\ \A i, j \in 1..Len(writes) : writes[i] = writes[j] => i = j
        /\ \A i \in 1..Len(writes) :
                writes[i] \in {request.accounts[1], request.accounts[2]}
        /\ Changed # {} => Changed \subseteq {request.accounts[1], request.accounts[2]}

\* C16 amended: a request writes only through its first two accounts, each at
\* most once and only on success; the 3rd account never changes, and the 4th
\* changes only when it is the very account supplied in the counter role.
C16_Frame ==
    Invoked =>
        /\ Supplied(3) => request.accounts[3] \notin Changed
        /\ (Supplied(4) /\ request.accounts[4] # request.accounts[1])
                => request.accounts[4] \notin Changed
        /\ \A i, j \in 1..Len(writes) : writes[i] = writes[j] => i = j
        /\ \A i \in 1..Len(writes) :
                writes[i] \in {request.accounts[1], request.accounts[2]}
        /\ Changed # {} => Changed \subseteq {request.accounts[1], request.accounts[2]}
        /\ ~Succeeded => writes = <<>> /\ Changed = {}
        /\ Succeeded => writes = <<request.accounts[1], request.accounts[2]>>

\* the counter account signs as the requester and is incremented
C16_Witness ==
    /\ Succeeded
    /\ request.accounts[4] = request.accounts[1]
    /\ writes = <<"server", request.accounts[2]>>
    /\ Changed = {"server"}

\* C17: a request supplying one account as both the counter and the claim
\* record is rejected and changes neither the count nor the claim bytes; when
\* every check passes, the rejection is the failed second borrow.
C17_AliasedRecords ==
    (Invoked /\ Supplied(2) /\ request.accounts[1] = request.accounts[2])
        => /\ ~Succeeded
           /\ data = before
           /\ writes = <<>>
           /\ (ChecksBeforeClaimedPass /\ ~CheckFails(7))
                => result = [kind |-> "AccountBorrowFailed", code |-> 0]

C17_Witness ==
    /\ request.accounts = <<"meta_bob", "meta_bob", "rent", "user1">>
    /\ request.instruction_data = Bob
    /\ before["meta_bob"] = Fill(0)
    /\ result = [kind |-> "AccountBorrowFailed", code |-> 0]
    /\ data["meta_bob"] = Fill(0)

\* C18: process_instruction never returns UnexpectedCandidate (custom code
\* 0), whatever the request and the ledger; the Vote decoder, the only place
\* that produces it, is not called by process_instruction.
C18_NeverUnexpectedCandidate ==
    /\ Invoked => result # [kind |-> "Custom", code |-> 0]
    /\ Invoked => (result.kind = "Custom" => result.code \in 1..4)

\* a payload the Vote decoder rejects is accepted by process_instruction
C18_Witness ==
    /\ Succeeded
    /\ Vote_unpack_from_slice(request.instruction_data).err
            = [kind |-> "Custom", code |-> 0]

\* C19: packing a count writes exactly its four bytes, least significant
\* first, and leaves the rest of the buffer alone, and unpacking them yields
\* the count again; unpacking any 32 bytes as a claim record succeeds, and
\* packing the result reproduces the 32 bytes.
C19_CodecRoundTrip ==
    /\ conv.op = "count"
            => LET c   == conv.in.count
                   out == conv.out.packed
               IN  /\ out.err = Ok
                   /\ Len(out.dst) = Len(conv.in.dst)
                   /\ SubSeq(out.dst, 1, 4)
                        = <<c.lo % 256, c.lo \div 256, c.hi % 256, c.hi \div 256>>
                   /\ \A i \in 5..Len(out.dst) : out.dst[i] = conv.in.dst[i]
                   /\ conv.out.unpacked = [err |-> Ok, name_count |-> c]
    /\ conv.op = "claim"
            => /\ conv.out.unpacked.err = Ok
               /\ conv.out.packed.err = Ok
               /\ conv.out.packed.dst = conv.in.src

\* the count 0x010001FF: its bytes differ, so their order shows
C19_Witness ==
    /\ conv.op = "count"
    /\ conv.in.count = [hi |-> 256, lo |-> 511]
    /\ conv.out.packed.dst = <<255, 1, 0, 1>>
    /\ conv.out.unpacked.name_count = [hi |-> 256, lo |-> 511]

====
